---------------------------- MODULE Spec2Model ----------------------------
(***************************************************************************)
(* A model of libpdf's COS layer: the value grammar parser of src/cos.py   *)
(* (parse_cos_value and the nine from_bytes decoders), Stream.decode, and  *)
(* the reference-resolution pass of src/parse.py (Body.resolve_references  *)
(* over the replace_references methods of src/cos.py).                     *)
(*                                                                         *)
(* Bytes are integers 0..255 and byte strings are sequences of them.       *)
(* Python str values are sequences of code points.                         *)
(***************************************************************************)
EXTENDS Integers, Sequences, FiniteSets, TLC

(***************************************************************************)
(* Byte strings                                                            *)
(***************************************************************************)

\* The code point of each character the model writes as a literal.
Ord ==
    " " :> 32 @@ "\n" :> 10 @@ "\t" :> 9 @@ "!" :> 33 @@ "#" :> 35 @@ "%" :> 37
    @@ "(" :> 40 @@ ")" :> 41 @@ "+" :> 43 @@ "-" :> 45 @@ "." :> 46 @@ "/" :> 47
    @@ "0" :> 48 @@ "1" :> 49 @@ "2" :> 50 @@ "3" :> 51 @@ "4" :> 52 @@ "5" :> 53
    @@ "6" :> 54 @@ "7" :> 55 @@ "8" :> 56 @@ "9" :> 57
    @@ "<" :> 60 @@ ">" :> 62
    @@ "A" :> 65 @@ "B" :> 66 @@ "C" :> 67 @@ "D" :> 68 @@ "E" :> 69 @@ "F" :> 70
    @@ "G" :> 71 @@ "K" :> 75 @@ "L" :> 76 @@ "N" :> 78 @@ "R" :> 82 @@ "S" :> 83
    @@ "T" :> 84 @@ "U" :> 85 @@ "W" :> 87 @@ "Z" :> 90
    @@ "[" :> 91 @@ "\\" :> 92 @@ "]" :> 93 @@ "_" :> 95
    @@ "a" :> 97 @@ "b" :> 98 @@ "c" :> 99 @@ "d" :> 100 @@ "e" :> 101 @@ "f" :> 102
    @@ "g" :> 103 @@ "h" :> 104 @@ "i" :> 105 @@ "l" :> 108 @@ "m" :> 109 @@ "n" :> 110
    @@ "o" :> 111 @@ "r" :> 114 @@ "s" :> 115 @@ "t" :> 116 @@ "u" :> 117
    @@ "x" :> 120 @@ "{" :> 123 @@ "}" :> 125 @@ "~" :> 126

\* The byte string of a tuple of one-character strings.
B(cs) == [i \in 1..Len(cs) |-> Ord[cs[i]]]

SetMin(S) == CHOOSE x \in S : \A y \in S : x <= y

Drop(s, k) == SubSeq(s, k + 1, Len(s))

StartsWith(s, p) == Len(s) >= Len(p) /\ SubSeq(s, 1, Len(p)) = p

\* bytes.index / bytes.find of a sub-string: its first position (1-based), 0 when absent.
Find(s, p) ==
    LET at == {i \in 1..(Len(s) - Len(p) + 1) : SubSeq(s, i, i + Len(p) - 1) = p}
    IN  IF at = {} THEN 0 ELSE SetMin(at)

\* The bytes that bytes.strip()/lstrip() and the bytes pattern \s remove or match.
IsSpace(c) == c \in {9, 10, 11, 12, 13, 32}

IsDigit(c) == c \in 48..57

IsHexDigit(c) == c \in 48..57 \/ c \in 65..70 \/ c \in 97..102

HexVal(c) == IF c \in 48..57 THEN c - 48 ELSE IF c \in 65..70 THEN c - 55 ELSE c - 87

LStrip(s) ==
    LET keep == {i \in 1..Len(s) : ~IsSpace(s[i])}
    IN  IF keep = {} THEN <<>> ELSE SubSeq(s, SetMin(keep), Len(s))

SetMax(S) == CHOOSE x \in S : \A y \in S : x >= y

Strip(s) ==
    LET keep == {i \in 1..Len(s) : ~IsSpace(s[i])}
    IN  IF keep = {} THEN <<>> ELSE SubSeq(s, SetMin(keep), SetMax(keep))

Lower(s) == [i \in 1..Len(s) |-> IF s[i] \in 65..90 THEN s[i] + 32 ELSE s[i]]

\* The length of the longest prefix of s whose bytes all satisfy the class.
DigitRun(s) ==
    LET stop == {i \in 1..Len(s) : ~IsDigit(s[i])}
    IN  IF stop = {} THEN Len(s) ELSE SetMin(stop) - 1

SpaceRun(s) ==
    LET stop == {i \in 1..Len(s) : ~IsSpace(s[i])}
    IN  IF stop = {} THEN Len(s) ELSE SetMin(stop) - 1

RECURSIVE DecVal(_)
DecVal(s) == IF s = <<>> THEN 0 ELSE 10 * DecVal(SubSeq(s, 1, Len(s) - 1)) + (s[Len(s)] - 48)

(***************************************************************************)
(* UTF-8, as bytes.decode("utf-8") and str.encode("utf-8") do it           *)
(***************************************************************************)

IsCont(s, i) == i <= Len(s) /\ s[i] \in 128..191

\* The number of bytes of the well-formed UTF-8 sequence that starts s, 0 if none does.
Utf8Width(s) ==
    LET b == s[1]
    IN  IF b < 128 THEN 1
        ELSE IF b \in 194..223 THEN (IF IsCont(s, 2) THEN 2 ELSE 0)
        ELSE IF b \in 224..239 THEN
            (IF /\ IsCont(s, 2) /\ IsCont(s, 3)
                /\ (b = 224 => s[2] >= 160)
                /\ (b = 237 => s[2] <= 159)
             THEN 3 ELSE 0)
        ELSE IF b \in 240..244 THEN
            (IF /\ IsCont(s, 2) /\ IsCont(s, 3) /\ IsCont(s, 4)
                /\ (b = 240 => s[2] >= 144)
                /\ (b = 244 => s[2] <= 143)
             THEN 4 ELSE 0)
        ELSE 0

Utf8Point(s, w) ==
    CASE w = 1 -> s[1]
      [] w = 2 -> (s[1] - 192) * 64 + (s[2] - 128)
      [] w = 3 -> (s[1] - 224) * 4096 + (s[2] - 128) * 64 + (s[3] - 128)
      [] w = 4 -> (s[1] - 240) * 262144 + (s[2] - 128) * 4096 + (s[3] - 128) * 64 + (s[4] - 128)

RECURSIVE Utf8Valid(_)
Utf8Valid(s) ==
    IF s = <<>> THEN TRUE
    ELSE LET w == Utf8Width(s) IN w > 0 /\ Utf8Valid(Drop(s, w))

\* bytes.decode("utf-8") of a valid byte string: its code points.
RECURSIVE Utf8Decode(_)
Utf8Decode(s) ==
    IF s = <<>> THEN <<>>
    ELSE LET w == Utf8Width(s) IN <<Utf8Point(s, w)>> \o Utf8Decode(Drop(s, w))

Utf8Char(p) ==
    IF p < 128 THEN <<p>>
    ELSE IF p < 2048 THEN <<192 + (p \div 64), 128 + (p % 64)>>
    ELSE IF p < 65536 THEN <<224 + (p \div 4096), 128 + ((p \div 64) % 64), 128 + (p % 64)>>
    ELSE <<240 + (p \div 262144), 128 + ((p \div 4096) % 64),
           128 + ((p \div 64) % 64), 128 + (p % 64)>>

\* str.encode("utf-8")
RECURSIVE Utf8Encode(_)
Utf8Encode(t) == IF t = <<>> THEN <<>> ELSE Utf8Char(t[1]) \o Utf8Encode(Drop(t, 1))

(***************************************************************************)
(* COS values and the outcomes of a call                                   *)
(***************************************************************************)

Null == [type |-> "Null"]

Boolean(v) == [type |-> "Boolean", flag |-> v]

String(v, enc) == [type |-> "String", bytes |-> v, encoding |-> enc]

\* A Python int n is IntValue(n); a Python float is the decimal m / 10^e it was read from,
\* with m not divisible by 10 unless e = 0.
IntValue(n) == [real |-> FALSE, mant |-> n, exp |-> 0]

RECURSIVE RealValue(_, _)
RealValue(m, e) ==
    IF e > 0 /\ m % 10 = 0 THEN RealValue(m \div 10, e - 1)
    ELSE [real |-> TRUE, mant |-> m, exp |-> e]

Number(v) == [type |-> "Number", num |-> v]

Name(l) == [type |-> "Name", label |-> l]

Array(es) == [type |-> "Array", elements |-> es]

\* A dict is the sequence of its items in insertion order.
Dictionary(items) == [type |-> "Dictionary", items |-> items]

Stream(d, v) == [type |-> "Stream", stream_dict |-> d, payload |-> v]

Reference(n, g) == [type |-> "Reference", obj_num |-> n, gen_num |-> g]

\* A call returns a (value, remainder) pair, returns None, or raises.
Ok(v, rest) == [kind |-> "pair", value |-> v, rest |-> rest]

ReturnsNone == [kind |-> "None"]

Raise(e) == [kind |-> "raise", exc |-> e]

IsOk(r) == r.kind = "pair"

IsParseError(r) == r.kind = "raise" /\ r.exc = "ParseError"

(***************************************************************************)
(* Primitive decoders                                                      *)
(***************************************************************************)

kw_null == B(<<"n", "u", "l", "l">>)

kw_true == B(<<"t", "r", "u", "e">>)

kw_false == B(<<"f", "a", "l", "s", "e">>)

Null_from_bytes(string) ==
    LET s == LStrip(string)
    IN  IF StartsWith(Lower(s), kw_null) THEN Ok(Null, Drop(s, 4))
        ELSE Raise("ParseError")

\* The lower-cased copy is what the remainder is sliced from.
Boolean_from_bytes(string) ==
    LET s == Lower(LStrip(string))
    IN  IF StartsWith(s, kw_true) THEN Ok(Boolean(TRUE), Drop(s, 4))
        ELSE IF StartsWith(s, kw_false) THEN Ok(Boolean(FALSE), Drop(s, 5))
        ELSE Raise("ParseError")

\* Number._REGEX, ([+-]?(?:\d+(?:\.\d+)?)|(?:\.\d+)), matched at the start of s: the
\* sign belongs to the first alternative only. The match as [len, sign, int, frac]
\* (len = 0: no match; int and frac are the lengths of the digit runs).
Number_REGEX(s) ==
    LET sign == IF s # <<>> /\ s[1] \in {Ord["+"], Ord["-"]} THEN 1 ELSE 0
        d    == DigitRun(Drop(s, sign))
        tail == Drop(s, sign + d)
        f    == IF tail # <<>> /\ tail[1] = Ord["."] THEN DigitRun(Drop(tail, 1)) ELSE 0
        bare == IF s # <<>> /\ s[1] = Ord["."] THEN DigitRun(Drop(s, 1)) ELSE 0
    IN  IF d >= 1 THEN
            [len |-> sign + d + (IF f >= 1 THEN 1 + f ELSE 0), sign |-> sign,
             int |-> d, frac |-> f]
        ELSE IF bare >= 1 THEN [len |-> 1 + bare, sign |-> 0, int |-> 0, frac |-> bare]
        ELSE [len |-> 0, sign |-> 0, int |-> 0, frac |-> 0]

\* int(match.group()) when the text has no ".", else float(match.group()).
Number_from_bytes(string) ==
    LET m == Number_REGEX(string)
    IN  IF m.len = 0 THEN Raise("ParseError")
        ELSE LET neg    == m.sign = 1 /\ string[1] = Ord["-"]
                 ipart  == SubSeq(string, m.sign + 1, m.sign + m.int)
                 dotted == m.frac >= 1
                 fpart  == IF dotted THEN SubSeq(string, m.len - m.frac + 1, m.len) ELSE <<>>
                 mag    == DecVal(ipart \o fpart)
                 mant   == IF neg THEN 0 - mag ELSE mag
             IN  Ok(Number(IF dotted THEN RealValue(mant, m.frac) ELSE IntValue(mant)),
                    Drop(string, m.len))

\* _WHITESPACE + b"/%[]<>{}()"
NameDelimiters ==
    {0, 9, 10, 12, 13, 32}
    \cup {Ord[c] : c \in {"/", "%", "[", "]", "<", ">", "{", "}", "(", ")"}}

\* not (0x21 < char < 0x7E) or char in the delimiters
EndsName(char) == ~(33 < char /\ char < 126) \/ char \in NameDelimiters

\* re.sub(Name._NONREGULAR_CHARACTERS, chr(int(hex, 16)), string): only a "#" followed
\* by two hex digits matches; any other "#" is copied like every other character.
RECURSIVE NameUnescape(_)
NameUnescape(t) ==
    IF t = <<>> THEN <<>>
    ELSE IF t[1] = Ord["#"] /\ Len(t) >= 3 /\ IsHexDigit(t[2]) /\ IsHexDigit(t[3])
         THEN <<16 * HexVal(t[2]) + HexVal(t[3])>> \o NameUnescape(Drop(t, 3))
         ELSE <<t[1]>> \o NameUnescape(Drop(t, 1))

\* The for loop over the bytes after the slash: the length of the name's span.
NameEnd(body) ==
    LET stop == {i \in 1..Len(body) : EndsName(body[i])}
    IN  IF stop = {} THEN Len(body) ELSE SetMin(stop) - 1

Name_from_bytes(string) ==
    LET s == LStrip(string)
    IN  IF ~StartsWith(s, <<Ord["/"]>>) THEN Raise("ParseError")
        ELSE LET body == Drop(s, 1)
                 n    == NameEnd(body)
                 \* the span holds bytes 0x22..0x7D only: decode("utf-8") cannot fail
             IN  Ok(Name(NameUnescape(Utf8Decode(SubSeq(body, 1, n)))), Drop(body, n))

\* String._OCTAL_ESCAPE, \\\d\d\d, substituted by chr(int(ddd, 8)). The result is
\* [ok, text]: int(ddd, 8) raises ValueError on a digit 8 or 9. (The pattern's \d
\* is modelled on the ASCII digits.)
RECURSIVE OctalUnescape(_)
OctalUnescape(t) ==
    IF t = <<>> THEN [ok |-> TRUE, text |-> <<>>]
    ELSE IF /\ t[1] = Ord["\\"] /\ Len(t) >= 4
            /\ IsDigit(t[2]) /\ IsDigit(t[3]) /\ IsDigit(t[4])
         THEN IF \E i \in 2..4 : t[i] > Ord["7"] THEN [ok |-> FALSE, text |-> <<>>]
              ELSE LET r == OctalUnescape(Drop(t, 4))
                   IN  [ok |-> r.ok,
                        text |-> <<64 * (t[2] - 48) + 8 * (t[3] - 48) + (t[4] - 48)>> \o r.text]
         ELSE LET r == OctalUnescape(Drop(t, 1))
              IN  [ok |-> r.ok, text |-> <<t[1]>> \o r.text]

\* What int() skips around the digits of a str: the ASCII and Latin-1 white space.
IsIntSpace(c) == c \in 9..13 \/ c \in 28..32 \/ c \in {133, 160}

\* int(c1 + c2, 16) of a two-character str: the value, or 256 for ValueError. int()
\* skips white space around the number and takes a sign; bytes((v,)) refuses v < 0,
\* which the same except clause catches.
HexPair(c1, c2) ==
    IF IsHexDigit(c1) /\ IsHexDigit(c2) THEN 16 * HexVal(c1) + HexVal(c2)
    ELSE IF IsIntSpace(c1) /\ IsHexDigit(c2) THEN HexVal(c2)
    ELSE IF IsHexDigit(c1) /\ IsIntSpace(c2) THEN HexVal(c1)
    ELSE IF c1 = Ord["+"] /\ IsHexDigit(c2) THEN HexVal(c2)
    ELSE IF c1 = Ord["-"] /\ c2 = Ord["0"] THEN 0
    ELSE 256

\* str.replace(" ", "")
RECURSIVE RemoveSpaces(_)
RemoveSpaces(t) ==
    IF t = <<>> THEN <<>>
    ELSE (IF t[1] = 32 THEN <<>> ELSE <<t[1]>>) \o RemoveSpaces(Drop(t, 1))

\* zip(string[::2], string[1::2]): an odd last character has no partner and is dropped.
HexPairs(t) == [i \in 1..(Len(t) \div 2) |-> HexPair(t[2 * i - 1], t[2 * i])]

String_from_bytes(string) ==
    LET s == Strip(string)
    IN  IF StartsWith(s, <<Ord["("]>>) THEN
            LET end_i == Find(s, <<Ord[")"]>>)
            IN  IF end_i = 0 THEN ReturnsNone    \* except ValueError: pass, then no return
                ELSE LET raw == SubSeq(s, 2, end_i - 1)
                     IN  IF ~Utf8Valid(raw) THEN Raise("UnicodeDecodeError")
                         ELSE LET u == OctalUnescape(Utf8Decode(raw))
                              IN  IF ~u.ok THEN Raise("ValueError")
                                  ELSE Ok(String(Utf8Encode(u.text), "utf-8"), Drop(s, end_i))
        ELSE IF StartsWith(s, <<Ord["<"]>>) THEN
            LET end_i == Find(s, <<Ord[">"]>>)
            IN  IF end_i = 0 THEN Raise("ParseError")
                ELSE LET raw == SubSeq(s, 2, end_i - 1)
                     IN  IF ~Utf8Valid(raw) THEN Raise("UnicodeDecodeError")
                         ELSE LET vals == HexPairs(RemoveSpaces(Utf8Decode(raw)))
                              IN  IF \E i \in 1..Len(vals) : vals[i] = 256
                                  THEN Raise("ParseError")
                                  ELSE Ok(String(vals, "None"), Drop(s, end_i))
        ELSE Raise("ParseError")

\* Reference._REGEX, (\d+)\s+(\d+)\s+R, matched at the start of the stripped string.
Reference_from_bytes(string) ==
    LET s  == LStrip(string)
        d1 == DigitRun(s)
        a  == Drop(s, d1)
        w1 == SpaceRun(a)
        b  == Drop(a, w1)
        d2 == DigitRun(b)
        c  == Drop(b, d2)
        w2 == SpaceRun(c)
        e  == Drop(c, w2)
    IN  IF d1 >= 1 /\ w1 >= 1 /\ d2 >= 1 /\ w2 >= 1 /\ StartsWith(e, <<Ord["R"]>>)
        THEN Ok(Reference(DecVal(SubSeq(s, 1, d1)), DecVal(SubSeq(b, 1, d2))), Drop(e, 1))
        ELSE Raise("ParseError")

(***************************************************************************)
(* Container decoders and the dispatcher                                   *)
(***************************************************************************)

kw_stream == B(<<"s", "t", "r", "e", "a", "m", "\n">>)

kw_endstream == B(<<"\n", "e", "n", "d", "s", "t", "r", "e", "a", "m">>)

\* value[key] = v on a dict: a new key is appended, a known key keeps its place.
DictSet(items, key, v) ==
    IF \E i \in 1..Len(items) : items[i].key = key
    THEN [i \in 1..Len(items) |->
            IF items[i].key = key THEN [key |-> key, val |-> v] ELSE items[i]]
    ELSE Append(items, [key |-> key, val |-> v])

DictHas(items, key) == \E i \in 1..Len(items) : items[i].key = key

DictGet(items, key) == items[CHOOSE i \in 1..Len(items) : items[i].key = key].val

RECURSIVE parse_cos_value(_)
RECURSIVE TryTypes(_, _)
RECURSIVE ArrayLoop(_, _)
RECURSIVE DictionaryLoop(_, _)

\* The while loop of Array.from_bytes. "element, string = parse_cos_value(string)"
\* raises TypeError when the call returned None.
ArrayLoop(string, elements) ==
    LET s == LStrip(string)
        r == parse_cos_value(s)
    IN  IF IsParseError(r) THEN
            (IF StartsWith(s, <<Ord["]"]>>) THEN Ok(Array(elements), Drop(s, 1))
             ELSE Raise("ParseError"))
        ELSE IF r.kind = "raise" THEN r
        ELSE IF r.kind = "None" THEN Raise("TypeError")
        ELSE ArrayLoop(r.rest, Append(elements, r.value))

Array_from_bytes(string) ==
    LET s == LStrip(string)
    IN  IF ~StartsWith(s, <<Ord["["]>>) THEN Raise("ParseError")
        ELSE ArrayLoop(Drop(s, 1), <<>>)

\* The while loop of Dictionary.from_bytes.
DictionaryLoop(string, value) ==
    LET s   == LStrip(string)
        key == Name_from_bytes(s)
    IN  IF IsParseError(key) THEN
            (IF StartsWith(s, <<Ord[">"], Ord[">"]>>) THEN Ok(Dictionary(value), Drop(s, 2))
             ELSE Raise("ParseError"))
        ELSE LET r == parse_cos_value(LStrip(key.rest))
             IN  IF r.kind = "raise" THEN r
                 ELSE IF r.kind = "None" THEN Raise("TypeError")
                 ELSE DictionaryLoop(r.rest, DictSet(value, key.value.label, r.value))

Dictionary_from_bytes(string) ==
    LET s == LStrip(string)
    IN  IF ~StartsWith(s, <<Ord["<"], Ord["<"]>>) THEN Raise("ParseError")
        ELSE DictionaryLoop(Drop(s, 2), <<>>)

Stream_from_bytes(string) ==
    LET d == Dictionary_from_bytes(string)
    IN  IF ~IsOk(d) THEN d
        ELSE LET s == LStrip(d.rest)
             IN  IF ~StartsWith(s, kw_stream) THEN Raise("ParseError")
                 ELSE LET body == Drop(s, 7)
                          at   == Find(body, kw_endstream)
                      IN  IF at = 0 THEN Raise("ParseError")
                          ELSE Ok(Stream(d.value, SubSeq(body, 1, at - 1)),
                                  Drop(body, at + 9))

\* A slip: Number is tried first and Reference last.
from_bytes_NumberFirst(k, string) ==
    CASE k = 1 -> Number_from_bytes(string)
      [] k = 2 -> Stream_from_bytes(string)
      [] k = 3 -> Dictionary_from_bytes(string)
      [] k = 4 -> String_from_bytes(string)
      [] k = 5 -> Name_from_bytes(string)
      [] k = 6 -> Array_from_bytes(string)
      [] k = 7 -> Null_from_bytes(string)
      [] k = 8 -> Boolean_from_bytes(string)
      [] k = 9 -> Reference_from_bytes(string)

\* types = Reference, Stream, Dictionary, String, Name, Array, Null, Boolean, Number
from_bytes(k, string) ==
    CASE k = 1 -> Reference_from_bytes(string)
      [] k = 2 -> Stream_from_bytes(string)
      [] k = 3 -> Dictionary_from_bytes(string)
      [] k = 4 -> String_from_bytes(string)
      [] k = 5 -> Name_from_bytes(string)
      [] k = 6 -> Array_from_bytes(string)
      [] k = 7 -> Null_from_bytes(string)
      [] k = 8 -> Boolean_from_bytes(string)
      [] k = 9 -> Number_from_bytes(string)

\* The for loop of parse_cos_value from the k-th type on: whatever the first decoder
\* that does not raise ParseError returns or raises is the call's outcome.
TryTypes(k, string) ==
    IF k > 9 THEN Raise("ParseError")
    ELSE LET r == from_bytes(k, string)
         IN  IF IsParseError(r) THEN TryTypes(k + 1, string) ELSE r

parse_cos_value(string) == TryTypes(1, string)

(***************************************************************************)
(* Stream.decode                                                           *)
(***************************************************************************)

label_Filter == B(<<"F", "i", "l", "t", "e", "r">>)

label_FlateDecode == B(<<"F", "l", "a", "t", "e", "D", "e", "c", "o", "d", "e">>)

\* zlib is a library: a payload counts as a zlib stream when its two header bytes
\* pass zlib's header check (deflate method, check bits a multiple of 31), and the
\* bytes it inflates to are named, not computed.
IsZlibStream(data) ==
    Len(data) >= 2 /\ data[1] % 16 = 8 /\ (data[1] * 256 + data[2]) % 31 = 0

zlib_decompress(data) ==
    IF IsZlibStream(data) THEN [kind |-> "bytes", inflated |-> TRUE, data |-> data]
    ELSE Raise("zlib.error")

\* Only a Name has a label, and a Name has no value: the message of the
\* NotImplementedError reads self.stream_dict['Filter'].value before the raise.
Stream_decode(stream) ==
    LET items == stream.stream_dict.items
    IN  IF DictHas(items, label_Filter) THEN
            LET filter == DictGet(items, label_Filter)
            IN  IF filter.type # "Name" THEN Raise("AttributeError")
                ELSE IF filter.label = label_FlateDecode THEN zlib_decompress(stream.payload)
                ELSE Raise("AttributeError")
        ELSE [kind |-> "bytes", inflated |-> FALSE, data |-> stream.payload]

(***************************************************************************)
(* The object table of a Body                                              *)
(*                                                                         *)
(* Every parsed value is an instance of its own. An instance is named by   *)
(* where it was parsed: <<obj_num, gen_num>> is the parsed_content of that *)
(* object, and Append(id, i) is the i-th child of the instance id. The     *)
(* heap maps each instance to its fields, children held by name.           *)
(***************************************************************************)

MaxObjNum == 2

MaxGenNum == 1

MaxObjects == 2

MaxNodes == 4

Identities == (1..MaxObjNum) \X (0..MaxGenNum)

\* The values without children that a parsed tree of the model ends in.
Leaves == {Null} \cup {Reference(id[1], id[2]) : id \in Identities}

KeyAt(i) == <<64 + i>>

DictOf(f) == Dictionary([i \in 1..Len(f) |-> [key |-> KeyAt(i), val |-> f[i]]])

\* What parse_cos_value can return: the trees of n values, and the sequences of
\* trees with n values in all.
RECURSIVE TreesOfSize(_)
RECURSIVE ForestsOfSize(_)
TreesOfSize(n) ==
    IF n = 1 THEN Leaves \cup {Array(<<>>), Dictionary(<<>>)}
    ELSE {Array(f) : f \in ForestsOfSize(n - 1)}
         \cup {DictOf(f) : f \in ForestsOfSize(n - 1)}
         \cup {Stream(DictOf(f), <<>>) : f \in ForestsOfSize(n - 2)}

ForestsOfSize(n) ==
    IF n = 0 THEN {<<>>}
    ELSE UNION {{<<t>> \o f : t \in TreesOfSize(k), f \in ForestsOfSize(n - k)} : k \in 1..n}

\* The contents of the objects of a table, in the order of the table.
TableContents == {f \in UNION {ForestsOfSize(n) : n \in 0..MaxNodes} : Len(f) <= MaxObjects}

\* The keys of self.objects in the order the dict holds them.
TableOrders(k) == {o \in [1..k -> Identities] : \A i, j \in 1..k : o[i] = o[j] => i = j}

RECURSIVE Merge(_)
Merge(fs) == IF Len(fs) = 0 THEN <<>> ELSE fs[1] @@ Merge(Tail(fs))

\* The instances that parsing the tree t creates, the root named id.
RECURSIVE TreeHeap(_, _)
TreeHeap(id, t) ==
    IF t.type = "Array" THEN
        (id :> [type |-> "Array",
                elements |-> [i \in 1..Len(t.elements) |-> Append(id, i)]])
        @@ Merge([i \in 1..Len(t.elements) |-> TreeHeap(Append(id, i), t.elements[i])])
    ELSE IF t.type = "Dictionary" THEN
        (id :> [type |-> "Dictionary",
                items |-> [i \in 1..Len(t.items) |->
                              [key |-> t.items[i].key, val |-> Append(id, i)]]])
        @@ Merge([i \in 1..Len(t.items) |-> TreeHeap(Append(id, i), t.items[i].val)])
    ELSE IF t.type = "Stream" THEN
        (id :> [type |-> "Stream", stream_dict |-> Append(id, 1), payload |-> t.payload])
        @@ TreeHeap(Append(id, 1), t.stream_dict)
    ELSE id :> t

\* Object.__post_init__ for every object of the table.
TableHeap(o, f) == Merge([i \in 1..Len(o) |-> TreeHeap(o[i], f[i])])

\* The children an instance holds, in the order replace_references walks them.
Slots(node) ==
    IF node.type = "Array" THEN node.elements
    ELSE IF node.type = "Dictionary" THEN [i \in 1..Len(node.items) |-> node.items[i].val]
    ELSE IF node.type = "Stream" THEN <<node.stream_dict>>
    ELSE <<>>

IsComposite(node) == node.type \in {"Array", "Dictionary", "Stream"}

RefKey(node) == <<node.obj_num, node.gen_num>>

(***************************************************************************)
(* State                                                                   *)
(***************************************************************************)

VARIABLES
    \* a call of a decoder on a byte string
    phase,      \* "input", "parsed", "decoded"; "idle" while a Body is resolved
    input,      \* the bytes handed to the decoder
    called,     \* the decoder that was called
    result,     \* what the call returned or raised
    decoded,    \* what Stream.decode returned or raised
    \* Body.resolve_references on an object table
    status,     \* "parsed", "resolving", "resolved", "error"; "idle" while decoding
    order,      \* the keys of self.objects, in the order of the dict
    parsed,     \* the heap as the objects were parsed
    heap,       \* the heap
    lookup,     \* the local lookup: identity -> instance
    cursor,     \* how many objects the for loop has taken
    stack,      \* the replace_references calls in progress: [node, i], i the next slot
    error,      \* the identity the ParseError names
    visits,     \* instance -> the number of replace_references calls on it
    replaced,   \* the slots <<node, i>> that were assigned a looked-up value
    descended,  \* the slots <<node, i>> whose value replace_references was called on
    steps       \* the number of steps taken

parseVars == <<phase, input, called, result, decoded>>

resolveVars ==
    <<status, order, parsed, heap, lookup, cursor, stack, error, visits, replaced,
      descended, steps>>

vars == <<parseVars, resolveVars>>

NoResult == [kind |-> "none yet"]

ParseIdle ==
    /\ phase = "idle" /\ input = <<>> /\ called = "" /\ result = NoResult
    /\ decoded = NoResult

ResolveIdle ==
    /\ status = "idle" /\ order = <<>> /\ parsed = <<>> /\ heap = <<>> /\ lookup = <<>>
    /\ cursor = 0 /\ stack = <<>> /\ error = <<>> /\ visits = <<>> /\ replaced = {}
    /\ descended = {} /\ steps = 0

(***************************************************************************)
(* Body.resolve_references                                                 *)
(***************************************************************************)

\* Body.objects after extract_objects: every object parsed, nothing resolved.
Init ==
    /\ ParseIdle
    /\ \E f \in TableContents : \E o \in TableOrders(Len(f)) :
          /\ order = o
          /\ parsed = TableHeap(o, f)
          /\ heap = TableHeap(o, f)
    /\ status = "parsed" /\ lookup = <<>> /\ cursor = 0 /\ stack = <<>> /\ error = <<>>
    /\ visits = [n \in DOMAIN heap |-> 0]
    /\ replaced = {} /\ descended = {} /\ steps = 0

\* Object.parsed_content of the object with this identity: the instance named by it.
parsed_content(id) == id

\* lookup = {(obj.obj_num, obj.gen_num): obj.parsed_content for obj in ...}
BuildLookup(o) == [id \in {o[i] : i \in 1..Len(o)} |-> parsed_content(id)]

\* A slip: the looked-up value is stored in every slot of the list.
Array_setitem_EverySlot(h, node, i, target) ==
    [h EXCEPT ![node].elements = [j \in DOMAIN @ |-> target]]

\* self.elements[i] = references[...]
Array_setitem(h, node, i, target) == [h EXCEPT ![node].elements[i] = target]

\* A slip: the looked-up value is bound to the loop variable, not stored in the dict.
Dictionary_setitem_LoopVariable(h, node, i, target) == h

\* self.value[key] = references[...]
Dictionary_setitem(h, node, i, target) == [h EXCEPT ![node].items[i].val = target]

\* The calls in progress once the loop of the top call moves to its next slot.
Advance(stk) == [stk EXCEPT ![Len(stk)].i = @ + 1]

\* value.replace_references(references): a call on the instance value begins.
Call(stk, value) == Append(stk, [node |-> value, i |-> 1])

Return(stk) == SubSeq(stk, 1, Len(stk) - 1)

\* A slip: replace_references is called on the value just assigned.
AfterAssign_Recursing(stk, target) == Call(Advance(stk), target)

\* The calls in progress after a slot that held a Reference was assigned its
\* target: the loop goes on to the next slot; nothing is called on the target.
AfterAssign(stk, target) == Advance(stk)

Top == stack[Len(stack)]

\* What every step of a call records.
Record(slot) ==
    /\ steps' = steps + 1
    /\ IF Len(stack') > Len(stack)
       THEN /\ visits' = [visits EXCEPT ![stack'[Len(stack')].node] = @ + 1]
            /\ descended' = descended \cup slot
       ELSE UNCHANGED <<visits, descended>>

Resolve_Begin ==
    /\ status = "parsed"
    /\ lookup' = BuildLookup(order)
    /\ status' = "resolving"
    /\ steps' = steps + 1
    /\ UNCHANGED <<order, parsed, heap, cursor, stack, error, visits, replaced, descended>>
    /\ UNCHANGED parseVars

\* for obj in self.objects.values(): obj.parsed_content.replace_references(lookup)
Resolve_NextObject ==
    /\ status = "resolving" /\ stack = <<>> /\ cursor < Len(order)
    /\ cursor' = cursor + 1
    /\ stack' = Call(stack, lookup[order[cursor + 1]])
    /\ Record({})
    /\ UNCHANGED <<status, order, parsed, heap, lookup, error, replaced>>
    /\ UNCHANGED parseVars

Resolve_Return ==
    /\ status = "resolving" /\ stack = <<>> /\ cursor = Len(order)
    /\ status' = "resolved"
    /\ steps' = steps + 1
    /\ UNCHANGED <<order, parsed, heap, lookup, cursor, stack, error, visits, replaced,
                   descended>>
    /\ UNCHANGED parseVars

\* _NoChildrenMixin.replace_references: pass
NoChildren_replace_references ==
    /\ status = "resolving" /\ stack # <<>>
    /\ ~IsComposite(heap[Top.node])
    /\ stack' = Return(stack)
    /\ Record({})
    /\ UNCHANGED <<status, order, parsed, heap, lookup, cursor, error, replaced>>
    /\ UNCHANGED parseVars

\* The assignment to slot i of the instance node: that of its class.
setitem(h, node, i, target) ==
    IF h[node].type = "Array" THEN Array_setitem(h, node, i, target)
    ELSE Dictionary_setitem(h, node, i, target)

\* One turn of the for loop of Array.replace_references or of
\* Dictionary.replace_references.
LoopTurn ==
    LET node == heap[Top.node]
        slot == <<Top.node, Top.i>>
    IN  IF Top.i > Len(Slots(node)) THEN
            /\ stack' = Return(stack)
            /\ Record({})
            /\ UNCHANGED <<status, heap, error, replaced>>
        ELSE LET element == heap[Slots(node)[Top.i]]
             IN  IF element.type = "Reference" THEN
                     IF RefKey(element) \in DOMAIN lookup THEN
                         /\ heap' = setitem(heap, Top.node, Top.i, lookup[RefKey(element)])
                         /\ stack' = AfterAssign(stack, lookup[RefKey(element)])
                         /\ replaced' = replaced \cup {slot}
                         /\ Record({slot})
                         /\ UNCHANGED <<status, error>>
                     ELSE
                         /\ status' = "error"
                         /\ error' = RefKey(element)
                         /\ stack' = <<>>
                         /\ Record({})
                         /\ UNCHANGED <<heap, replaced>>
                 ELSE
                     /\ stack' = Call(Advance(stack), Slots(node)[Top.i])
                     /\ Record({slot})
                     /\ UNCHANGED <<status, heap, error, replaced>>

Array_replace_references ==
    /\ status = "resolving" /\ stack # <<>>
    /\ heap[Top.node].type = "Array"
    /\ LoopTurn
    /\ UNCHANGED <<order, parsed, lookup, cursor>>
    /\ UNCHANGED parseVars

Dictionary_replace_references ==
    /\ status = "resolving" /\ stack # <<>>
    /\ heap[Top.node].type = "Dictionary"
    /\ LoopTurn
    /\ UNCHANGED <<order, parsed, lookup, cursor>>
    /\ UNCHANGED parseVars

\* self.stream_dict.replace_references(references)
Stream_replace_references ==
    /\ status = "resolving" /\ stack # <<>>
    /\ heap[Top.node].type = "Stream"
    /\ IF Top.i = 1
       THEN stack' = Call(Advance(stack), heap[Top.node].stream_dict)
       ELSE stack' = Return(stack)
    /\ Record({<<Top.node, Top.i>>})
    /\ UNCHANGED <<status, order, parsed, heap, lookup, cursor, error, replaced>>
    /\ UNCHANGED parseVars

Next ==
    \/ Resolve_Begin
    \/ Resolve_NextObject
    \/ Resolve_Return
    \/ NoChildren_replace_references
    \/ Array_replace_references
    \/ Dictionary_replace_references
    \/ Stream_replace_references

Spec == Init /\ [][Next]_vars

(***************************************************************************)
(* Properties of the resolution pass                                       *)
(***************************************************************************)

TableKeys == {order[i] : i \in 1..Len(order)}

Finished == status \in {"resolved", "error"}

\* The instances that hold a child, with the position of the child.
SlotsOf(h) == UNION {{<<n, i>> : i \in 1..Len(Slots(h[n]))} : n \in DOMAIN h}

Children(h, S) == {Slots(h[sl[1]])[sl[2]] : sl \in {x \in SlotsOf(h) : x[1] \in S}}

\* The instances reachable from the instances S through any number of slots.
RECURSIVE Reachable(_, _)
Reachable(h, S) ==
    LET N == S \cup Children(h, S) IN IF N = S THEN S ELSE Reachable(h, N)

\* The identities that a Reference parsed anywhere in the table names and that the
\* table does not hold.
Dangling ==
    {RefKey(parsed[n]) : n \in {m \in DOMAIN parsed : parsed[m].type = "Reference"}}
    \ TableKeys

\* The slots that held a Reference when the objects were parsed.
ReferenceSlots ==
    {sl \in SlotsOf(parsed) : parsed[Slots(parsed[sl[1]])[sl[2]]].type = "Reference"}

\* The identity that the Reference parsed into the slot names.
Referent(sl) == RefKey(parsed[Slots(parsed[sl[1]])[sl[2]]])

\* C1: after resolve_references completes without error, no Reference is reachable
\* from any object's parsed_content through Array elements, Dictionary values and
\* Stream dictionaries, also for a table in which an object's whole content is a
\* Reference.
C1_NoReferenceReachable ==
    status = "resolved" =>
        \A n \in Reachable(heap, {parsed_content(id) : id \in TableKeys}) :
            heap[n].type # "Reference"

\* C2: when a Reference anywhere in an object's tree, at the root or deeper, names an
\* identity the table does not hold, resolve_references never completes; it ends
\* with an error naming such a reference, and no slot that held a dangling
\* Reference is assigned a value.
C2_DanglingIsAnError ==
    /\ Dangling # {} => status # "resolved"
    /\ status = "error" => error \in Dangling
    /\ \A sl \in replaced : Referent(sl) \in TableKeys

\* C3: after resolution every slot that held a Reference to (n, g) holds the very
\* instance that is the table's parsed_content for (n, g), so two referrers of one
\* identity hold one instance, and resolution created no instance.
C3_TargetsAreShared ==
    status = "resolved" =>
        /\ DOMAIN heap = DOMAIN parsed
        /\ \A sl \in ReferenceSlots :
              Slots(heap[sl[1]])[sl[2]] = parsed_content(Referent(sl))

\* Slots of two different objects held a Reference to one identity, and the table is
\* resolved.
C3_Witness ==
    /\ status = "resolved"
    /\ \E a, b \in ReferenceSlots :
          /\ SubSeq(a[1], 1, 2) # SubSeq(b[1], 1, 2) /\ Referent(a) = Referent(b)
          /\ Slots(heap[a[1]])[a[2]] = Slots(heap[b[1]])[b[2]]

\* The steps of a whole pass over a table of N instances: the begin and the return of
\* resolve_references, one call and one return for each instance, and one loop
\* turn for each child.
StepBound == 2 + 2 * Cardinality(DOMAIN parsed)

\* C4: resolve_references terminates on every table, cyclic ones included: a pass is
\* never stuck before its end and never takes more steps than one visit of every
\* instance takes; replace_references is called at most once on each instance, and
\* never on the value of a slot it has assigned.
C4_Terminates ==
    /\ Finished \/ ENABLED Next
    /\ steps <= StepBound
    /\ \A n \in DOMAIN visits : visits[n] <= 1
    /\ descended \cap replaced = {}

\* A resolved table whose graph is cyclic through two objects: each of two objects is
\* reachable from a child of the other.
C4_Witness ==
    /\ status = "resolved"
    /\ \E a, b \in TableKeys :
          /\ a # b
          /\ parsed_content(b) \in Reachable(heap, Children(heap, {parsed_content(a)}))
          /\ parsed_content(a) \in Reachable(heap, Children(heap, {parsed_content(b)}))

\* The graph that resolving the parsed table gives, whatever the order of the
\* objects: every slot that held a Reference holds the parsed_content it names.
ResolvedNode(n) ==
    LET node == parsed[n]
        to(i) == IF <<n, i>> \in ReferenceSlots /\ Referent(<<n, i>>) \in TableKeys
                 THEN parsed_content(Referent(<<n, i>>))
                 ELSE Slots(node)[i]
    IN  IF node.type = "Array" THEN [node EXCEPT !.elements = [i \in 1..Len(@) |-> to(i)]]
        ELSE IF node.type = "Dictionary"
        THEN [node EXCEPT !.items = [i \in 1..Len(@) |-> [key |-> @[i].key, val |-> to(i)]]]
        ELSE node

ResolvedGraph == [n \in DOMAIN parsed |-> ResolvedNode(n)]

\* C5: the result does not depend on the order of the objects: for a table without
\* dangling references every order ends in the same graph, and for a table with a
\* dangling reference every order ends in an error.
C5_OrderIndependent ==
    /\ status = "resolved" => heap = ResolvedGraph
    /\ Dangling # {} => status # "resolved"

\* C15: replace_references changes nothing but the slots that held a Reference:
\* throughout a pass, and so at its successful end, no instance appears or
\* disappears, every Array keeps its length and order, every Dictionary its keys,
\* every Stream its payload and its stream-dictionary instance, every slot that held
\* a value other than a Reference holds the same instance, the values without
\* children (a Reference among them) are untouched, and the lookup keeps its keys and
\* the instances they map to.
C15_OnlyReferenceSlotsChange ==
    /\ DOMAIN heap = DOMAIN parsed
    /\ \A n \in DOMAIN parsed :
          /\ heap[n].type = parsed[n].type
          /\ Len(Slots(heap[n])) = Len(Slots(parsed[n]))
          /\ parsed[n].type = "Dictionary" =>
                \A i \in 1..Len(parsed[n].items) :
                    heap[n].items[i].key = parsed[n].items[i].key
          /\ parsed[n].type = "Stream" =>
                /\ heap[n].payload = parsed[n].payload
                /\ heap[n].stream_dict = parsed[n].stream_dict
          /\ ~IsComposite(parsed[n]) => heap[n] = parsed[n]
          /\ \A i \in 1..Len(Slots(parsed[n])) :
                parsed[Slots(parsed[n])[i]].type # "Reference" =>
                    Slots(heap[n])[i] = Slots(parsed[n])[i]
    /\ status \in {"resolving", "resolved", "error"} => lookup = BuildLookup(order)

\* A resolved table with an Array of which one slot was assigned its target and
\* another holds a value that is no Reference.
C15_Witness ==
    /\ status = "resolved"
    /\ \E n \in DOMAIN parsed :
          /\ parsed[n].type = "Array"
          /\ \E i, j \in 1..Len(Slots(parsed[n])) :
                /\ <<n, i>> \in replaced
                /\ Slots(heap[n])[i] # Slots(parsed[n])[i]
                /\ parsed[Slots(parsed[n])[j]].type # "Reference"

(***************************************************************************)
(* Calls of the decoders                                                   *)
(***************************************************************************)

MaxSuffixLen == 2

MaxNumberLen == 4

MaxNameLen == 4

MaxTokens == 4

MaxPayloadLen == 2

MaxDigits == 2

MaxHexLen == 4

MaxBlankLen == 2

\* The byte strings of at most n bytes over the bytes S.
RECURSIVE BytesUpTo(_, _)
BytesUpTo(S, n) ==
    IF n = 0 THEN {<<>>}
    ELSE LET shorter == BytesUpTo(S, n - 1)
         IN  shorter \cup {Append(b, c) : b \in {x \in shorter : Len(x) = n - 1}, c \in S}

\* The concatenations of at most n of the byte strings T.
RECURSIVE Concats(_, _)
Concats(T, n) ==
    IF n = 0 THEN {<<>>}
    ELSE LET shorter == Concats(T, n - 1) IN shorter \cup {b \o t : b \in shorter, t \in T}

\* Every upper/lower-case spelling of a lower-case word.
RECURSIVE Spellings(_)
Spellings(word) ==
    IF word = <<>> THEN {<<>>}
    ELSE {<<c>> \o s : c \in {word[1], word[1] - 32}, s \in Spellings(Tail(word))}

Literals == Spellings(kw_null) \cup Spellings(kw_true) \cup Spellings(kw_false)

Suffixes == BytesUpTo({Ord[" "], Ord["/"], Ord["N"], Ord["a"]}, MaxSuffixLen)

\* A literal and what follows it, alone and as the start of an Array.
LiteralInputs ==
    {l \o x : l \in Literals, x \in Suffixes}
    \cup {<<Ord["["]>> \o l \o x \o <<Ord["]"]>> : l \in Literals, x \in Suffixes}

NumberInputs ==
    BytesUpTo({Ord["+"], Ord["-"], Ord["."], Ord["0"], Ord["2"], Ord["5"]}, MaxNumberLen)

NameInputs ==
    {<<Ord["/"]>> \o x :
        x \in BytesUpTo({Ord["N"], Ord["#"], Ord["2"], Ord["F"], Ord["G"], Ord["/"]},
                        MaxNameLen)}

Tokens ==
    { B(<<"(", "a">>), B(<<")">>), B(<<"[">>), B(<<"]">>), B(<<"<", "<">>),
      B(<<">", ">">>), B(<<"/", "K">>), B(<<"\\", "9", "9", "9">>), <<255>> }

GrammarInputs == Concats(Tokens, MaxTokens)

FilterEntries ==
    { <<>>,
      B(<<"/", "L", "e", "n", "g", "t", "h", " ", "3">>),
      B(<<"/", "N", "/">>) \o label_Filter,
      <<Ord["/"]>> \o label_Filter \o <<Ord["/"]>> \o label_FlateDecode,
      <<Ord["/"]>> \o label_Filter \o B(<<"/", "L", "Z", "W", "D", "e", "c", "o", "d", "e">>),
      <<Ord["/"]>> \o label_Filter \o B(<<"[", "/">>) \o label_FlateDecode \o <<Ord["]"]>>,
      <<Ord["/"]>> \o label_Filter \o <<Ord["("]>> \o label_FlateDecode \o <<Ord[")"]>>,
      <<Ord["/"]>> \o label_Filter \o B(<<" ", "1", " ", "0", " ", "R">>),
      <<Ord["/"]>> \o label_Filter \o B(<<"/", "N", "/">>) \o label_Filter
          \o <<Ord["/"]>> \o label_FlateDecode }

\* 0x78 0x9C is the header of a zlib stream.
Payloads == BytesUpTo({120, 156, Ord["a"]}, MaxPayloadLen)

StreamInputs ==
    {B(<<"<", "<">>) \o e \o B(<<">", ">">>) \o kw_stream \o p \o kw_endstream :
        e \in FilterEntries, p \in Payloads}

\* Runs of digits, what separates them, and what follows two of them.
Digits == BytesUpTo({Ord["0"], Ord["1"]}, MaxDigits) \ {<<>>}

Gaps == {<<>>, B(<<" ">>), B(<<"\n">>)}

ReferenceTails == {<<>>, B(<<"R">>), B(<<"r">>), B(<<"R", "/", "K">>), B(<<"0", " ", "R">>)}

\* Two numbers and an R or not, alone and after a number in an Array.
ReferenceInputs ==
    LET plain == {d1 \o w1 \o d2 \o w2 \o t :
                     d1 \in Digits, w1 \in Gaps, d2 \in Digits, w2 \in Gaps,
                     t \in ReferenceTails}
    IN  plain \cup {B(<<"[", "0", " ">>) \o x \o B(<<"]">>) : x \in plain}

\* Arrays and Dictionaries, closed and not, flat and nested.
Containers ==
    { B(<<"[", "]">>), B(<<"[", "/", "K", "]">>), B(<<"[", "(", "a", ")", "]">>),
      B(<<"[", "[", "]", "/", "K", "]">>), B(<<"[", "n", "u", "l", "l", "]">>),
      B(<<"[", "t", "r", "u", "e", "]">>), B(<<"[", "<", "<", ">", ">", "]">>),
      B(<<"[", "/", "K", "(", "a", ")", "[", "]", "]">>),
      B(<<"[", "/", "K">>), B(<<"[", "(", "a", "]">>),
      B(<<"<", "<", ">", ">">>), B(<<"<", "<", "/", "K", "/", "K", ">", ">">>),
      B(<<"<", "<", "/", "K", "(", "a", ")", ">", ">">>),
      B(<<"<", "<", "/", "K", "[", "]", ">", ">">>),
      B(<<"<", "<", "/", "K", ">", ">">>), B(<<"<", "<", "/", "K", "/", "K">>) }

\* A container and what follows it.
ContainerInputs == {c \o x : c \in Containers, x \in Suffixes}

\* Hex-form strings: digits, a non-digit, a sign, a space and a newline.
HexInputs ==
    {B(<<"<">>) \o x \o B(<<">">>) :
        x \in BytesUpTo({Ord["4"], Ord["b"], Ord["G"], Ord["+"], Ord[" "], Ord["\n"]},
                        MaxHexLen)}

\* Well-formed tokens of the nine value forms.
WellFormed ==
    { B(<<"1", " ", "0", " ", "R">>),
      B(<<"<", "<", ">", ">">>) \o kw_stream \o B(<<"a">>) \o kw_endstream,
      B(<<"<", "<", "/", "K", "/", "K", ">", ">">>),
      B(<<"(", "a", ")">>), B(<<"<", "4", "b", ">">>),
      B(<<"/", "K">>),
      B(<<"[", "/", "K", "]">>),
      kw_null, kw_true, kw_false,
      B(<<"1", "2">>), B(<<"-", "2", ".", "5">>), B(<<".", "5">>) }

Blanks == BytesUpTo({Ord[" "], Ord["\n"], Ord["\t"]}, MaxBlankLen) \ {<<>>}

\* A token, alone and after white space.
BlankInputs == WellFormed \cup {w \o t : w \in Blanks, t \in WellFormed}

Inputs ==
    LiteralInputs \cup NumberInputs \cup NameInputs \cup GrammarInputs \cup StreamInputs
    \cup ReferenceInputs \cup ContainerInputs \cup HexInputs \cup BlankInputs

InitParse ==
    /\ ResolveIdle
    /\ phase = "input"
    /\ input \in Inputs
    /\ called = "" /\ result = NoResult /\ decoded = NoResult

Returned(name, r) ==
    /\ phase = "input"
    /\ phase' = "parsed"
    /\ called' = name
    /\ result' = r
    /\ UNCHANGED <<input, decoded>>
    /\ UNCHANGED resolveVars

Call_parse_cos_value == Returned("parse_cos_value", parse_cos_value(input))

Call_Number_from_bytes == Returned("Number.from_bytes", Number_from_bytes(input))

Call_Name_from_bytes == Returned("Name.from_bytes", Name_from_bytes(input))

Call_String_from_bytes == Returned("String.from_bytes", String_from_bytes(input))

\* decode() on the Stream that parse_cos_value returned.
Call_Stream_decode ==
    /\ phase = "parsed"
    /\ IsOk(result) /\ result.value.type = "Stream"
    /\ phase' = "decoded"
    /\ decoded' = Stream_decode(result.value)
    /\ UNCHANGED <<input, called, result>>
    /\ UNCHANGED resolveVars

NextParse ==
    \/ Call_parse_cos_value
    \/ Call_Number_from_bytes
    \/ Call_Name_from_bytes
    \/ Call_String_from_bytes
    \/ Call_Stream_decode

SpecParse == InitParse /\ [][NextParse]_vars

(***************************************************************************)
(* Properties of the decoders                                              *)
(***************************************************************************)

Answered(name) == phase # "input" /\ called = name

\* C6: for every byte input parse_cos_value either returns a (Value, remaining bytes)
\* pair or fails with ParseError: it never returns anything else and never fails with
\* another kind of error, also on an unterminated parenthesis string, on a
\* non-octal three-digit escape and on bytes that are not UTF-8.
C6_PairOrParseError ==
    Answered("parse_cos_value") => IsOk(result) \/ IsParseError(result)

\* The value of a literal that the lower-cased input starts with.
LiteralValue(word) ==
    IF word = kw_null THEN Null ELSE IF word = kw_true THEN Boolean(TRUE) ELSE Boolean(FALSE)

\* C7: an input that starts with any spelling of null, true or false decodes to Null,
\* Boolean(true) or Boolean(false), and the remainder is the bytes after the literal,
\* unchanged; so inside an Array what follows the literal is decoded from those
\* unchanged bytes.
C7_LiteralLeavesRestUntouched ==
    Answered("parse_cos_value") =>
        \A word \in {kw_null, kw_true, kw_false} :
            /\ StartsWith(Lower(input), word) =>
                  result = Ok(LiteralValue(word), Drop(input, Len(word)))
            /\ (StartsWith(input, <<Ord["["]>>) /\ StartsWith(Lower(Drop(input, 1)), word)) =>
                  result = ArrayLoop(Drop(input, 1 + Len(word)), <<LiteralValue(word)>>)

\* The grammar of C8 at the start of s: an optional sign, then digits with an optional
\* .digits suffix, or a bare .digits. [len, neg, int, frac]; len = 0: no number.
SignedNumber(s) ==
    LET sign == IF s # <<>> /\ s[1] \in {Ord["+"], Ord["-"]} THEN 1 ELSE 0
        neg  == sign = 1 /\ s[1] = Ord["-"]
        t    == Drop(s, sign)
        d    == DigitRun(t)
        u    == Drop(t, d)
        f    == IF u # <<>> /\ u[1] = Ord["."] THEN DigitRun(Drop(u, 1)) ELSE 0
    IN  IF d >= 1 /\ f >= 1 THEN
            [len |-> sign + d + 1 + f, neg |-> neg, int |-> SubSeq(t, 1, d),
             frac |-> SubSeq(u, 2, 1 + f)]
        ELSE IF d >= 1 THEN
            [len |-> sign + d, neg |-> neg, int |-> SubSeq(t, 1, d), frac |-> <<>>]
        ELSE IF f >= 1 THEN
            [len |-> sign + 1 + f, neg |-> neg, int |-> <<>>, frac |-> SubSeq(u, 2, 1 + f)]
        ELSE [len |-> 0, neg |-> FALSE, int |-> <<>>, frac |-> <<>>]

SignedNumberValue(m) ==
    LET mag == DecVal(m.int \o m.frac)
        v   == IF m.neg THEN 0 - mag ELSE mag
    IN  IF m.frac = <<>> THEN IntValue(v) ELSE RealValue(v, Len(m.frac))

\* C8: Number decoding accepts exactly an optional sign followed by digits with an
\* optional .digits suffix or by a bare .digits; the value is an integer when the
\* text has no ".", else a real, "+" changing nothing and "-" negating. So a signed
\* bare fraction such as -.25 or +.5 decodes to a Number.
C8_NumberGrammar ==
    Answered("Number.from_bytes") =>
        LET m == SignedNumber(input)
        IN  IF m.len = 0 THEN ~IsOk(result)
            ELSE result = Ok(Number(SignedNumberValue(m)), Drop(input, m.len))

\* A "#" of the span that two hex digits do not follow.
HasInvalidEscape(t) ==
    \E i \in 1..Len(t) :
        /\ t[i] = Ord["#"]
        /\ ~(i + 2 <= Len(t) /\ IsHexDigit(t[i + 1]) /\ IsHexDigit(t[i + 2]))

\* A span whose escapes are all valid, each replaced by its character.
RECURSIVE EscapesReplaced(_)
EscapesReplaced(t) ==
    IF t = <<>> THEN <<>>
    ELSE IF t[1] = Ord["#"]
         THEN <<16 * HexVal(t[2]) + HexVal(t[3])>> \o EscapesReplaced(Drop(t, 3))
         ELSE <<t[1]>> \o EscapesReplaced(Drop(t, 1))

\* C9: Name decoding replaces every #XX escape by the character of that code point,
\* and fails with ParseError whenever the name's span holds a "#" that two hex digits
\* do not follow; such a name is never returned.
C9_InvalidEscapeIsAnError ==
    (Answered("Name.from_bytes") /\ StartsWith(input, <<Ord["/"]>>)) =>
        LET body == Drop(input, 1)
            span == SubSeq(body, 1, NameEnd(body))
        IN  IF HasInvalidEscape(span) THEN IsParseError(result)
            ELSE result = Ok(Name(EscapesReplaced(span)), Drop(body, Len(span)))

\* C10: decode() is decided by the Filter entry alone: without one the payload is
\* returned unchanged, with the Name FlateDecode the inflated payload is returned,
\* and with any other Filter name NotImplementedError is raised and nothing else;
\* parsing such a stream succeeds, the error comes from decode() only.
C10_DecodeByFilter ==
    /\ (Answered("parse_cos_value") /\ input \in StreamInputs) =>
          IsOk(result) /\ result.value.type = "Stream"
    /\ phase = "decoded" =>
          LET items == result.value.stream_dict.items
              data  == result.value.payload
          IN  IF ~DictHas(items, label_Filter)
              THEN decoded = [kind |-> "bytes", inflated |-> FALSE, data |-> data]
              ELSE LET filter == DictGet(items, label_Filter)
                   IN  /\ (filter.type = "Name" /\ filter.label = label_FlateDecode
                             /\ IsZlibStream(data)) =>
                             decoded = [kind |-> "bytes", inflated |-> TRUE, data |-> data]
                       /\ (filter.type = "Name" /\ filter.label # label_FlateDecode) =>
                             decoded = Raise("NotImplementedError")

\* The form <digits> <digits> R at the start of s: [ok, obj, gen, len].
ReferenceForm(s) ==
    LET d1 == DigitRun(s)
        a  == Drop(s, d1)
        w1 == SpaceRun(a)
        b  == Drop(a, w1)
        d2 == DigitRun(b)
        c  == Drop(b, d2)
        w2 == SpaceRun(c)
        e  == Drop(c, w2)
    IN  [ok  |-> d1 >= 1 /\ w1 >= 1 /\ d2 >= 1 /\ w2 >= 1 /\ StartsWith(e, <<Ord["R"]>>),
         obj |-> SubSeq(s, 1, d1), gen |-> SubSeq(b, 1, d2),
         len |-> d1 + w1 + d2 + w2 + 1]

ReferenceOf(f) == Reference(DecVal(f.obj), DecVal(f.gen))

\* C11: the decoders are tried in the order Reference, Stream, Dictionary, String,
\* Name, Array, Null, Boolean, Number and the first success is returned. So an
\* input that begins <digits> <digits> R decodes to one Reference and never to a
\* Number with the rest left over; numbers that no R follows decode a Number first,
\* also inside an Array before a Reference; and a Dictionary followed by stream,
\* newline, payload, newline, endstream decodes to a Stream.
C11_FirstSuccessInOrder ==
    Answered("parse_cos_value") =>
        LET f == ReferenceForm(input)
            m == SignedNumber(input)
            g == ReferenceForm(Drop(input, 3))
            d == Dictionary_from_bytes(input)
        IN  /\ f.ok => result = Ok(ReferenceOf(f), Drop(input, f.len))
            /\ (~f.ok /\ input # <<>> /\ IsDigit(input[1])) =>
                  result = Ok(Number(SignedNumberValue(m)), Drop(input, m.len))
            /\ (StartsWith(input, B(<<"[", "0", " ">>)) /\ g.ok
                   /\ Drop(input, 3 + g.len) = B(<<"]">>)) =>
                  result = Ok(Array(<<Number(IntValue(0)), ReferenceOf(g)>>), <<>>)
            /\ (IsOk(d) /\ StartsWith(d.rest, kw_stream)
                   /\ Find(Drop(d.rest, Len(kw_stream)), kw_endstream) # 0) =>
                  LET body == Drop(d.rest, Len(kw_stream))
                      at   == Find(body, kw_endstream)
                  IN  result = Ok(Stream(d.value, SubSeq(body, 1, at - 1)),
                                  Drop(body, at - 1 + Len(kw_endstream)))

\* A Number decoded first and then a Reference, in one Array.
C11_Witness ==
    /\ Answered("parse_cos_value") /\ IsOk(result)
    /\ result.value.type = "Array" /\ Len(result.value.elements) = 2
    /\ result.value.elements[1].type = "Number"
    /\ result.value.elements[2] = Reference(11, 10)

\* C12: an Array or a Dictionary ends successfully only at its own terminator, its
\* elements in source order, and the remainder is then the input after that closing
\* delimiter, unchanged, also for nested containers; every other failure (a missing
\* terminator, an element that cannot be decoded, a key with no value even when >>
\* comes next) is a ParseError and nothing else.
C12_ContainersEndAtTerminator ==
    Answered("parse_cos_value") =>
        /\ StartsWith(input, B(<<"[">>)) =>
              /\ IsOk(result) \/ IsParseError(result)
              /\ IsOk(result) =>
                    /\ result.value.type = "Array"
                    /\ \E k \in 1..Len(input) :
                          input[k] = Ord["]"] /\ result.rest = Drop(input, k)
        /\ StartsWith(input, B(<<"<", "<">>)) =>
              /\ IsOk(result) \/ IsParseError(result)
              /\ IsOk(result) =>
                    /\ result.value.type \in {"Dictionary", "Stream"}
                    /\ result.value.type = "Dictionary" =>
                          \E k \in 2..Len(input) :
                              /\ SubSeq(input, k - 1, k) = B(<<">", ">">>)
                              /\ result.rest = Drop(input, k)
        /\ \A x \in Suffixes :
              /\ input = B(<<"[", "/", "K", "(", "a", ")", "[", "]", "]">>) \o x =>
                    result = Ok(Array(<<Name(B(<<"K">>)), String(B(<<"a">>), "utf-8"),
                                        Array(<<>>)>>), x)
              /\ input = B(<<"[", "[", "]", "/", "K", "]">>) \o x =>
                    result = Ok(Array(<<Array(<<>>), Name(B(<<"K">>))>>), x)
              /\ input = B(<<"<", "<", "/", "K", "[", "]", ">", ">">>) \o x =>
                    result = Ok(Dictionary(<<[key |-> B(<<"K">>), val |-> Array(<<>>)]>>), x)
              /\ input = B(<<"<", "<", "/", "K", ">", ">">>) \o x => IsParseError(result)
              /\ input = B(<<"[", "/", "K">>) \o x => ~IsOk(result)

\* The text with every white-space character removed.
RECURSIVE WithoutWhitespace(_)
WithoutWhitespace(t) ==
    IF t = <<>> THEN <<>>
    ELSE (IF IsSpace(t[1]) THEN <<>> ELSE <<t[1]>>) \o WithoutWhitespace(Drop(t, 1))

AllHex(t) == \A i \in 1..Len(t) : IsHexDigit(t[i])

\* One byte for each pair of hex digits.
BytesOfPairs(t) == [i \in 1..(Len(t) \div 2) |-> 16 * HexVal(t[2 * i - 1]) + HexVal(t[2 * i])]

\* C13: a hex-form String <...> decodes only if what is between the brackets, white
\* space removed, is an even number of hex digits, and then to one byte for each pair
\* of digits; an odd number of hex digits or any character that is neither a hex
\* digit nor white space is a ParseError, never a shortened or altered byte string.
C13_HexStringWellFormed ==
    (Answered("String.from_bytes") /\ StartsWith(input, B(<<"<">>))
        /\ Find(input, B(<<">">>)) # 0) =>
        LET content == SubSeq(input, 2, Find(input, B(<<">">>)) - 1)
            digits  == WithoutWhitespace(content)
        IN  /\ IsOk(result) =>
                  /\ AllHex(digits) /\ Len(digits) % 2 = 0
                  /\ result.value = String(BytesOfPairs(digits), "None")
            /\ (~AllHex(digits) \/ Len(digits) % 2 = 1) => IsParseError(result)
            /\ (AllHex(digits) /\ Len(digits) % 2 = 0
                  /\ \A i \in 1..Len(content) : content[i] # Ord["\n"]) =>
                  IsOk(result)

\* C14: every decoder strips leading white space before it matches: for each of the
\* nine value forms and every well-formed token t of it, parse_cos_value of white
\* space followed by t returns the Value that parse_cos_value of t returns.
C14_LeadingWhitespaceStripped ==
    Answered("parse_cos_value") =>
        \A w \in Blanks, t \in WellFormed :
            input = w \o t =>
                /\ IsOk(parse_cos_value(t))
                /\ IsOk(result)
                /\ result.value = parse_cos_value(t).value

=============================================================================
